---- MODULE Spec2Model ----
(***************************************************************************)
(* Model of kit-query-params' src/lib/utils.ts: debounce,                  *)
(* stringifyPrimitive, parseURL (with its inner parseSchemaRecursive),     *)
(* isValidPath and isPrimitive.                                            *)
(*                                                                         *)
(* A JavaScript string is a sequence of one-character strings, so that     *)
(* template-literal concatenation, startsWith, split and the /^\d+$/ test  *)
(* are computed on characters as the code computes them.                   *)
(* A JavaScript value is a record [k, s, n]: k the runtime type, s the     *)
(* characters of a string (or the name of a special number / date),        *)
(* n the numeric payload.                                                  *)
(***************************************************************************)
EXTENDS Integers, Sequences, FiniteSets, TLC

\* ---------------------------------------------------------------- bounds
MaxPaths == 3        \* entries appended to the URLSearchParams
MaxTime == 7         \* clock ticks of the timer model
MaxInvocations == 3  \* invocations of a debounced function
MaxSegments == 3     \* segments of a path passed to isValidPath

\* ------------------------------------------------------------ JS strings
Digit == <<"0", "1", "2", "3", "4", "5", "6", "7", "8", "9">>

IsDigit(c) == \E d \in 1..10 : Digit[d] = c

DigitVal(c) == (CHOOSE d \in 1..10 : Digit[d] = c) - 1

\* `${i}` / Number.prototype.toString of a non-negative integer
RECURSIVE NatToString(_)
NatToString(i) ==
    IF i < 10 THEN <<Digit[i + 1]>>
    ELSE NatToString(i \div 10) \o <<Digit[(i % 10) + 1]>>

\* /^\d+$/.test(part)
AllDigits(s) == Len(s) > 0 /\ \A i \in 1..Len(s) : IsDigit(s[i])

\* numeric value of a string of decimal digits
RECURSIVE DigitsToNat(_)
DigitsToNat(s) ==
    IF Len(s) = 0 THEN 0
    ELSE 10 * DigitsToNat(SubSeq(s, 1, Len(s) - 1)) + DigitVal(s[Len(s)])

\* String.prototype.startsWith
startsWith(s, p) == Len(p) <= Len(s) /\ SubSeq(s, 1, Len(p)) = p

\* String.prototype.endsWith
endsWith(s, p) == Len(p) <= Len(s) /\ SubSeq(s, Len(s) - Len(p) + 1, Len(s)) = p

\* String.prototype.split(sep) for a one-character separator
RECURSIVE split(_, _)
split(s, sep) ==
    IF \A i \in 1..Len(s) : s[i] # sep THEN <<s>>
    ELSE LET i == CHOOSE j \in 1..Len(s) :
                      s[j] = sep /\ \A h \in 1..(j - 1) : s[h] # sep
         IN  <<SubSeq(s, 1, i - 1)>> \o split(SubSeq(s, i + 1, Len(s)), sep)

\* Array.prototype.includes on a sequence
includes(seq, x) == \E i \in 1..Len(seq) : seq[i] = x

\* ------------------------------------------------------------- JS values
Undefined == [k |-> "undefined", s |-> <<>>, n |-> 0]
Null == [k |-> "null", s |-> <<>>, n |-> 0]
Str(x) == [k |-> "string", s |-> x, n |-> 0]
Num(i) == [k |-> "number", s |-> <<>>, n |-> i]
NaN == [k |-> "number", s |-> <<"N", "a", "N">>, n |-> 0]
Infinity == [k |-> "number", s |-> <<"I", "n", "f", "i", "n", "i", "t", "y">>, n |-> 0]
Bool(b) == [k |-> "boolean", s |-> <<>>, n |-> IF b THEN 1 ELSE 0]
DateOf(t) == [k |-> "date", s |-> <<>>, n |-> t]
InvalidDate == [k |-> "date", s |-> <<"I", "n", "v", "a", "l", "i", "d">>, n |-> 0]

\* ToBoolean: what `!value`, `value ||` and `value ?` test
Truthy(v) ==
    CASE v.k = "undefined" -> FALSE
      [] v.k = "null" -> FALSE
      [] v.k = "string" -> v.s # <<>>
      [] v.k = "number" -> IF v.s = <<>> THEN v.n # 0 ELSE v # NaN
      [] v.k = "boolean" -> v.n = 1
      [] OTHER -> TRUE

\* Date.prototype.toISOString of a valid date: the instant t written out
toISOString(v) == <<"T">> \o NatToString(v.n)

\* value.toString() / String(value)
toString(v) ==
    CASE v.k = "string" -> v.s
      [] v.k = "number" -> IF v.s = <<>> THEN NatToString(v.n) ELSE v.s
      [] v.k = "boolean" -> IF v.n = 1 THEN <<"t", "r", "u", "e">>
                            ELSE <<"f", "a", "l", "s", "e">>
      [] v.k = "date" -> IF v.s = <<>> THEN toISOString(v) ELSE v.s
      [] v.k = "null" -> <<"n", "u", "l", "l">>
      [] OTHER -> <<"u", "n", "d", "e", "f", "i", "n", "e", "d">>

\* ------------------------------------------------------- primitive kinds
STRING_T == <<"s", "t", "r", "i", "n", "g">>
NUMBER_T == <<"n", "u", "m", "b", "e", "r">>
DATE_T == <<"d", "a", "t", "e">>
BOOLEAN_T == <<"b", "o", "o", "l", "e", "a", "n">>

\* coerce.js validateEnum: the literals between '<' and '>' split on ','
validateEnum(primitiveType, value) ==
    /\ value.k = "string"
    /\ includes(split(SubSeq(primitiveType, 2, Len(primitiveType) - 1), ","), value.s)

\* ------------------------------------------------- src/lib/utils.ts 17-37
\* the 'number' case with the `value === 0` disjunct left out
stringifyNumberNoZero(value) ==
    IF value = Null THEN Null
    ELSE IF Truthy(value) THEN Str(toString(value)) ELSE Null

stringifyNumber(value) ==
    IF value = Null THEN Null
    ELSE IF Truthy(value) \/ value = Num(0) THEN Str(toString(value)) ELSE Null

\* the enum case returning the value without validating it
stringifyEnumUnchecked(primitiveType, value) == value

stringifyEnum(primitiveType, value) ==
    IF validateEnum(primitiveType, value) THEN value ELSE Null

stringifyPrimitive(primitiveType, value) ==
    CASE primitiveType = STRING_T ->
             IF ~Truthy(value) THEN Null ELSE Str(toString(value))
      [] primitiveType = NUMBER_T -> stringifyNumber(value)
      [] primitiveType = DATE_T ->
             LET isDate == Truthy(value) /\ value.k = "date" /\ value # InvalidDate
             IN  IF value = Null THEN Null
                 ELSE IF isDate THEN Str(toISOString(value)) ELSE Null
      [] primitiveType = BOOLEAN_T ->
             IF value = Null THEN Null
             ELSE IF Truthy(value) THEN Str(<<"t", "r", "u", "e">>)
             ELSE Str(<<"f", "a", "l", "s", "e">>)
      [] OTHER -> stringifyEnum(primitiveType, value)

\* ------------------------------------------------------------- coerce.js
\* String.prototype.toLowerCase on the letters of the boolean words
toLowerCase(s) ==
    [i \in 1..Len(s) |->
        CASE s[i] = "T" -> "t" [] s[i] = "R" -> "r" [] s[i] = "U" -> "u"
          [] s[i] = "E" -> "e" [] s[i] = "F" -> "f" [] s[i] = "A" -> "a"
          [] s[i] = "L" -> "l" [] s[i] = "S" -> "s" [] OTHER -> s[i]]

\* a raw string that is present, coerced to the kind; null when it is invalid
coerceRaw(primitiveType, raw) ==
    IF raw = <<>> \/ raw = <<"n", "u", "l", "l">> THEN Null
    ELSE CASE primitiveType = STRING_T -> Str(raw)
           [] primitiveType = NUMBER_T ->
                  IF AllDigits(raw) THEN Num(DigitsToNat(raw))
                  ELSE IF raw = Infinity.s THEN Infinity ELSE Null
           [] primitiveType = DATE_T ->
                  IF AllDigits(raw) THEN DateOf(DigitsToNat(raw))
                  ELSE IF Len(raw) > 1 /\ raw[1] = "T" /\ AllDigits(Tail(raw))
                       THEN DateOf(DigitsToNat(Tail(raw)))
                  ELSE Null
           [] primitiveType = BOOLEAN_T ->
                  IF toLowerCase(raw) \in {<<"t", "r", "u", "e">>, <<"1">>} THEN Bool(TRUE)
                  ELSE IF toLowerCase(raw) \in {<<"f", "a", "l", "s", "e">>, <<"0">>}
                       THEN Bool(FALSE)
                  ELSE Null
           [] OTHER -> IF validateEnum(primitiveType, Str(raw)) THEN Str(raw) ELSE Null

\* a default value, coerced the same way as a raw one
coerceDefault(primitiveType, d) ==
    CASE d.k \in {"undefined", "null"} -> Null
      [] d.k = "string" -> coerceRaw(primitiveType, d.s)
      [] d.k = "number" -> IF primitiveType = NUMBER_T /\ d # NaN THEN d ELSE Null
      [] d.k = "boolean" -> IF primitiveType = BOOLEAN_T THEN d ELSE Null
      [] OTHER -> IF primitiveType = DATE_T /\ d # InvalidDate THEN d ELSE Null

\* only an absent raw value falls back to the default
coercePrimitive(primitiveType, value, defaultValue) ==
    IF value.k \in {"undefined", "null"} THEN coerceDefault(primitiveType, defaultValue)
    ELSE coerceRaw(primitiveType, value.s)

\* ----------------------------------------------------- schemas and trees
\* A schema type is a primitive tag (a string) or an object schema (the
\* ordered entries of Object.entries); an entry wraps its type in [ ] or not.
Prim(tag) == [isStr |-> TRUE, str |-> tag, obj |-> <<>>]
Obj(entries) == [isStr |-> FALSE, str |-> <<>>, obj |-> entries]
Field(key, type) == [key |-> key, isArray |-> FALSE, type |-> type]
ArrayField(key, type) == [key |-> key, isArray |-> TRUE, type |-> type]

\* A tree (parsed value or default value): a leaf holding a JS value, an
\* object with ordered keys, or an array.
Leaf(v) == [t |-> "leaf", v |-> v, keys |-> <<>>, kids |-> <<>>]
ObjectNode(keys, kids) == [t |-> "object", v |-> Undefined, keys |-> keys, kids |-> kids]
ArrayNode(kids) == [t |-> "array", v |-> Undefined, keys |-> <<>>, kids |-> kids]
UndefinedNode == Leaf(Undefined)

\* defaultSchema?.[key]
DefaultGet(defaultSchema, key) ==
    IF defaultSchema.t = "object" /\ includes(defaultSchema.keys, key)
    THEN defaultSchema.kids[CHOOSE i \in 1..Len(defaultSchema.keys) :
                                defaultSchema.keys[i] = key]
    ELSE UndefinedNode

\* defaultValue?.[i]
DefaultAt(defaultValue, i) ==
    IF defaultValue.t = "array" /\ i < Len(defaultValue.kids)
    THEN defaultValue.kids[i + 1]
    ELSE UndefinedNode

\* ToBoolean of a tree: objects and arrays are truthy
NodeTruthy(node) == IF node.t = "leaf" THEN Truthy(node.v) ELSE TRUE

\* ----------------------------------------------- src/lib/utils.ts 139-144
isPrimitive(type) ==
    /\ type.isStr
    /\ \/ includes(<<STRING_T, NUMBER_T, DATE_T, BOOLEAN_T>>, type.str)
       \/ startsWith(type.str, <<"<">>) /\ endsWith(type.str, <<">">>)

\* ------------------------------------------------ src/lib/utils.ts 56-59
\* Map.prototype.set that keeps the value a key already has
MapSetKeepFirst(m, key, value) ==
    [x \in DOMAIN m \cup {key} |-> IF x \in DOMAIN m THEN m[x] ELSE value]

\* Map.prototype.set, as the Map constructor applies it to each entry
MapSet(m, key, value) ==
    [x \in DOMAIN m \cup {key} |-> IF x = key THEN value ELSE m[x]]

\* new Map(paths): the entries set in iteration order
RECURSIVE NewMap(_)
NewMap(entries) ==
    IF Len(entries) = 0 THEN [x \in {} |-> <<>>]
    ELSE MapSet(NewMap(SubSeq(entries, 1, Len(entries) - 1)),
                entries[Len(entries)][1], entries[Len(entries)][2])

\* pathMap.get(key): a string, or undefined
MapGet(m, key) == IF key \in DOMAIN m THEN Str(m[key]) ELSE Undefined

\* ----------------------------------------------- src/lib/utils.ts 61-109
\* `${currentPath}.${key}`, or key at the root
JoinPath(currentPath, key) ==
    IF currentPath # <<>> THEN currentPath \o <<".">> \o key ELSE key

\* the scalar leaf storing the raw lookup without coercing it
primitiveLeafRaw(pathMap, schemaType, newPath, defaultValue) ==
    Leaf(MapGet(pathMap, newPath))

\* lines 88-89: a scalar primitive
primitiveLeaf(pathMap, schemaType, newPath, defaultValue) ==
    Leaf(coercePrimitive(schemaType, MapGet(pathMap, newPath), defaultValue.v))

\* line 81: !value && !defaultValue?.[i], the break test of the primitive scan
primitiveScanBreaks(pathMap, newPath, defaultValue, i) ==
    LET arrayPath == newPath \o <<".">> \o NatToString(i)
        value == MapGet(pathMap, arrayPath)
    IN  ~Truthy(value) /\ ~NodeTruthy(DefaultAt(defaultValue, i))

\* lines 78-85: the index scan of a primitive array, from index i on
RECURSIVE primitiveArrayScan(_, _, _, _, _)
primitiveArrayScan(pathMap, primitive, newPath, defaultValue, i) ==
    LET arrayPath == newPath \o <<".">> \o NatToString(i)
        value == MapGet(pathMap, arrayPath)
    IN  IF primitiveScanBreaks(pathMap, newPath, defaultValue, i) THEN <<>>
        ELSE <<Leaf(coercePrimitive(primitive, value, DefaultAt(defaultValue, i).v))>>
             \o primitiveArrayScan(pathMap, primitive, newPath, defaultValue, i + 1)

\* line 98: does any key of the map start with arrayPath
hasPaths(pathMap, arrayPath) ==
    \E path \in DOMAIN pathMap : startsWith(path, arrayPath)

\* line 99: !defaultValue?.[i] && !hasPaths, the break test of the object scan
objectScanBreaks(pathMap, newPath, defaultValue, i) ==
    LET arrayPath == newPath \o <<".">> \o NatToString(i)
    IN  ~NodeTruthy(DefaultAt(defaultValue, i)) /\ ~hasPaths(pathMap, arrayPath)

RECURSIVE parseSchemaRecursive(_, _, _, _)
RECURSIVE objectArrayScan(_, _, _, _, _)

\* lines 96-102: the index scan of an object array, from index i on
objectArrayScan(pathMap, schema, newPath, defaultValue, i) ==
    LET arrayPath == newPath \o <<".">> \o NatToString(i)
    IN  IF objectScanBreaks(pathMap, newPath, defaultValue, i)
        THEN <<>>
        ELSE <<parseSchemaRecursive(pathMap, schema, arrayPath, DefaultAt(defaultValue, i))>>
             \o objectArrayScan(pathMap, schema, newPath, defaultValue, i + 1)

\* lines 67-108: one object level; currentResult is returned filled
parseSchemaRecursive(pathMap, currentSchema, currentPath, defaultSchema) ==
    LET entry(e) ==
            LET key == currentSchema[e].key
                schemaType == currentSchema[e].type
                newPath == JoinPath(currentPath, key)
                defaultValue == DefaultGet(defaultSchema, key)
                isArray == currentSchema[e].isArray
            IN  IF isPrimitive(schemaType)
                THEN IF isArray
                     THEN ArrayNode(primitiveArrayScan(pathMap, schemaType.str, newPath,
                                                       defaultValue, 0))
                     ELSE primitiveLeaf(pathMap, schemaType.str, newPath, defaultValue)
                ELSE IF isArray
                     THEN ArrayNode(objectArrayScan(pathMap, schemaType.obj, newPath,
                                                    defaultValue, 0))
                     ELSE parseSchemaRecursive(pathMap, schemaType.obj, newPath, defaultValue)
    IN  ObjectNode([e \in 1..Len(currentSchema) |-> currentSchema[e].key],
                   [e \in 1..Len(currentSchema) |-> entry(e)])

\* ----------------------------------------------- src/lib/utils.ts 47-113
parseURL(data, schema, defaultValue) ==
    parseSchemaRecursive(NewMap(data), schema, <<>>, defaultValue)

\* ---------------------------------------------- src/lib/utils.ts 115-137
\* the property names every object literal inherits from Object.prototype,
\* which `part in currentSchema` (line 129) finds as well as the own keys
ObjectPrototypeKeys ==
    { <<"c", "o", "n", "s", "t", "r", "u", "c", "t", "o", "r">>,
      <<"_", "_", "d", "e", "f", "i", "n", "e", "G", "e", "t", "t", "e", "r", "_", "_">>,
      <<"_", "_", "d", "e", "f", "i", "n", "e", "S", "e", "t", "t", "e", "r", "_", "_">>,
      <<"h", "a", "s", "O", "w", "n", "P", "r", "o", "p", "e", "r", "t", "y">>,
      <<"_", "_", "l", "o", "o", "k", "u", "p", "G", "e", "t", "t", "e", "r", "_", "_">>,
      <<"_", "_", "l", "o", "o", "k", "u", "p", "S", "e", "t", "t", "e", "r", "_", "_">>,
      <<"i", "s", "P", "r", "o", "t", "o", "t", "y", "p", "e", "O", "f">>,
      <<"p", "r", "o", "p", "e", "r", "t", "y", "I", "s", "E", "n", "u", "m", "e", "r", "a", "b", "l", "e">>,
      <<"t", "o", "S", "t", "r", "i", "n", "g">>,
      <<"v", "a", "l", "u", "e", "O", "f">>,
      <<"_", "_", "p", "r", "o", "t", "o", "_", "_">>,
      <<"t", "o", "L", "o", "c", "a", "l", "e", "S", "t", "r", "i", "n", "g">> }

CONSTRUCTOR == <<"c", "o", "n", "s", "t", "r", "u", "c", "t", "o", "r">>

PROTO == <<"_", "_", "p", "r", "o", "t", "o", "_", "_">>

\* currentSchema is [isArray, node, host]. host "schema": the array [node] or
\* the schema node itself; otherwise a value reached through an inherited
\* property: a "function", the "prototype" object, or "null".
SchemaValue(isArray, node) == [isArray |-> isArray, node |-> node, host |-> "schema"]
HostValue(host) == [isArray |-> FALSE, node |-> Obj(<<>>), host |-> host]

\* currentSchema[part] for an inherited property name
InheritedValue(currentSchema, part) ==
    IF part # PROTO THEN HostValue("function")
    ELSE IF currentSchema.host = "schema" THEN HostValue("prototype")
    ELSE HostValue("null")

\* line 133: whether currentSchema[part] is an entry the schema declares
hasKeyOwnOnly(currentSchema, part) ==
    /\ currentSchema.host = "schema"
    /\ \E e \in 1..Len(currentSchema.node.obj) : currentSchema.node.obj[e].key = part

\* line 129: part in currentSchema, for an object currentSchema
hasKey(currentSchema, part) ==
    \/ /\ currentSchema.host = "schema"
       /\ \E e \in 1..Len(currentSchema.node.obj) : currentSchema.node.obj[e].key = part
    \/ part \in ObjectPrototypeKeys

RECURSIVE isValidPathFrom(_, _, _)
isValidPathFrom(parts, i, currentSchema) ==
    IF i > Len(parts) THEN TRUE
    ELSE IF currentSchema.host = "schema" /\ ~currentSchema.isArray /\ currentSchema.node.isStr
         THEN FALSE
    ELSE IF currentSchema.host = "schema" /\ currentSchema.isArray
         THEN IF ~AllDigits(parts[i]) THEN FALSE
              ELSE isValidPathFrom(parts, i + 1, SchemaValue(FALSE, currentSchema.node))
    ELSE IF currentSchema.host \in {"function", "null"} \/ ~hasKey(currentSchema, parts[i])
         THEN FALSE
    ELSE IF hasKeyOwnOnly(currentSchema, parts[i])
         THEN LET f == currentSchema.node.obj[CHOOSE e \in 1..Len(currentSchema.node.obj) :
                                                  currentSchema.node.obj[e].key = parts[i]]
              IN  isValidPathFrom(parts, i + 1, SchemaValue(f.isArray, f.type))
    ELSE isValidPathFrom(parts, i + 1, InheritedValue(currentSchema, parts[i]))

isValidPath(path, schema) ==
    isValidPathFrom(split(path, "."), 1, SchemaValue(FALSE, Obj(schema)))

\* ------------------------------------------- serialization (index.svelte)
RECURSIVE Concat(_)
Concat(seqs) == IF Len(seqs) = 0 THEN <<>> ELSE Head(seqs) \o Concat(Tail(seqs))

\* one flat entry for a primitive leaf, none when it stringifies to null
serializeLeaf(primitive, leaf, path) ==
    LET string == stringifyPrimitive(primitive, leaf.v)
    IN  IF string = Null THEN <<>> ELSE <<<<path, string.s>>>>

\* the flat entries of a value tree, walked along the schema
RECURSIVE serialize(_, _, _)
serialize(currentSchema, node, currentPath) ==
    LET entry(e) ==
            LET schemaType == currentSchema[e].type
                newPath == JoinPath(currentPath, currentSchema[e].key)
                kid == node.kids[e]
                at(i) == newPath \o <<".">> \o NatToString(i - 1)
            IN  IF isPrimitive(schemaType)
                THEN IF currentSchema[e].isArray
                     THEN Concat([i \in 1..Len(kid.kids) |->
                                     serializeLeaf(schemaType.str, kid.kids[i], at(i))])
                     ELSE serializeLeaf(schemaType.str, kid, newPath)
                ELSE IF currentSchema[e].isArray
                     THEN Concat([i \in 1..Len(kid.kids) |->
                                     serialize(schemaType.obj, kid.kids[i], at(i))])
                     ELSE serialize(schemaType.obj, kid, newPath)
    IN  Concat([e \in 1..Len(currentSchema) |-> entry(e)])

\* -------------------------------------------------------------- scenarios
\* The schemas, query entries, default trees and assigned values the model
\* draws its inputs from.
EnumAB == <<"<", "a", ",", "b", ">">>

Scenarios == <<
    \* { n: 'number', t: ['number'] }
    [ schema |-> <<Field(<<"n">>, Prim(NUMBER_T)), ArrayField(<<"t">>, Prim(NUMBER_T))>>,
      entries |-> { <<<<"n">>, <<"1">>>>, <<<<"n">>, <<"x">>>>,
                    <<<<"t", ".", "0">>, <<"1">>>>, <<<<"t", ".", "0">>, <<>>>>,
                    <<<<"t", ".", "1">>, <<"x">>>>, <<<<"t", ".", "1">>, <<"2">>>>,
                    <<<<"t", ".", "2">>, <<"3">>>>, <<<<"u">>, <<"1">>>> },
      defaults |-> { UndefinedNode,
                     ObjectNode(<<<<"n">>, <<"t">>>>,
                                <<Leaf(Num(5)), ArrayNode(<<Leaf(Num(0)), Leaf(Num(7))>>)>>) },
      pushed |-> { Num(0), NaN } ],
    \* { e: '<a,b>', es: ['<a,b>'] }
    [ schema |-> <<Field(<<"e">>, Prim(EnumAB)), ArrayField(<<"e", "s">>, Prim(EnumAB))>>,
      entries |-> { <<<<"e">>, <<"a">>>>, <<<<"e">>, <<"A">>>>, <<<<"e">>, <<>>>>,
                    <<<<"e", "s", ".", "0">>, <<"a">>>>, <<<<"e", "s", ".", "0">>, <<"c">>>>,
                    <<<<"e", "s", ".", "1">>, <<"b">>>>, <<<<"e", "s", ".", "1">>, <<"B">>>>,
                    <<<<"e", "s", ".", "2">>, <<"a">>>> },
      defaults |-> { UndefinedNode,
                     ObjectNode(<<<<"e">>, <<"e", "s">>>>,
                                <<Leaf(Str(<<"b">>)), ArrayNode(<<Leaf(Str(<<"a">>))>>)>>),
                     ObjectNode(<<<<"e">>>>, <<Leaf(Str(<<"z">>))>>) },
      pushed |-> { Str(<<"z">>), Str(<<"b">>) } ],
    \* { o: [{ f: 'string', g: 'boolean' }] }
    [ schema |-> <<ArrayField(<<"o">>, Obj(<<Field(<<"f">>, Prim(STRING_T)),
                                             Field(<<"g">>, Prim(BOOLEAN_T))>>))>>,
      entries |-> { <<<<"o", ".", "0", ".", "f">>, <<"v">>>>,
                    <<<<"o", ".", "0", ".", "g">>, <<"T", "R", "U", "E">>>>,
                    <<<<"o", ".", "1", ".", "f">>, <<"w">>>>,
                    <<<<"o", ".", "1", ".", "g">>, <<"0">>>>,
                    <<<<"o", ".", "2", ".", "f">>, <<"v">>>>,
                    <<<<"o", ".", "1", "0", ".", "f">>, <<"v">>>>,
                    <<<<"o", ".", "0", "x">>, <<"v">>>>,
                    <<<<"o", ".", "0", ".", "z">>, <<"v">>>> },
      defaults |-> { UndefinedNode,
                     ObjectNode(<<<<"o">>>>,
                                <<ArrayNode(<<ObjectNode(<<<<"f">>>>, <<Leaf(Str(<<"d">>))>>)>>)>>) },
      pushed |-> {} ],
    \* { p: { q: { s: 'string' } }, b: 'boolean', d: 'date' }
    [ schema |-> <<Field(<<"p">>, Obj(<<Field(<<"q">>, Obj(<<Field(<<"s">>, Prim(STRING_T))>>))>>)),
                   Field(<<"b">>, Prim(BOOLEAN_T)), Field(<<"d">>, Prim(DATE_T))>>,
      entries |-> { <<<<"p", ".", "q", ".", "s">>, <<"v">>>>,
                    <<<<"p", ".", "q", ".", "s">>, <<"n", "u", "l", "l">>>>,
                    <<<<"b">>, <<"T", "R", "U", "E">>>>, <<<<"b">>, <<"0">>>>,
                    <<<<"b">>, <<"m", "a", "y", "b", "e">>>>,
                    <<<<"d">>, <<"5">>>>, <<<<"p", ".", "q">>, <<"v">>>>,
                    <<<<"z", "z">>, <<"v">>>> },
      defaults |-> { UndefinedNode,
                     ObjectNode(<<<<"p">>, <<"b">>>>,
                                <<ObjectNode(<<<<"q">>>>,
                                             <<ObjectNode(<<<<"s">>>>, <<Leaf(Str(<<"d">>))>>)>>),
                                  Leaf(Bool(FALSE))>>) },
      pushed |-> {} ] >>

\* ------------------------------------------------------------------ state
VARIABLES
    scenario,       \* which schema the caller set up
    defaultValue,   \* the default tree passed to parseURL
    searchParams,   \* the URLSearchParams entries, in iteration order
    pc,             \* "build", "parsed", "serialized", "reparsed"
    result,         \* the tree parseURL returned (and the application mutates)
    assigned,       \* whether the application mutated result
    flat,           \* the flat entries serialized from result
    reparsed,       \* the tree parseURL returned for flat
    primitiveType,  \* stringifyPrimitive's first argument
    value,          \* stringifyPrimitive's second argument
    str,            \* what stringifyPrimitive returned
    delay,          \* debounce's delay: false or a number
    now,            \* the clock
    timeout,        \* debounce's `timeout` variable: a timer id, 0 when unset
    timers,         \* the host's pending timers, [id, at]
    fnCalls,        \* executions of the wrapped fn
    invocations,    \* invocations of the returned function
    lastInvocation, \* the time of the last invocation
    fnCallsSince,   \* executions of fn since the last invocation
    pathArg,        \* isValidPath's path argument
    pathValid,      \* what isValidPath returned: "unknown" before the call
    scanEntry,      \* the schema entry whose index scan is running, 0 when none
    scanIndex,      \* the scan's loop variable i
    scanState       \* "idle", "scanning", "done"

codecVars == <<scenario, defaultValue, searchParams, pc, result, assigned, flat, reparsed>>
stringifyVars == <<primitiveType, value, str>>
debounceVars == <<delay, now, timeout, timers, fnCalls, invocations, lastInvocation, fnCallsSince>>
pathVars == <<pathArg, pathValid>>
scanVars == <<scanEntry, scanIndex, scanState>>
vars == <<codecVars, stringifyVars, debounceVars, pathVars, scanVars>>

Schema == Scenarios[scenario].schema

CodecIdle ==
    /\ scenario = 1 /\ defaultValue = UndefinedNode /\ searchParams = <<>>
    /\ pc = "build" /\ result = UndefinedNode /\ assigned = FALSE
    /\ flat = <<>> /\ reparsed = UndefinedNode

StringifyIdle == primitiveType = STRING_T /\ value = Undefined /\ str = Undefined

DebounceIdle ==
    /\ delay = Bool(FALSE) /\ now = 0 /\ timeout = 0 /\ timers = {}
    /\ fnCalls = 0 /\ invocations = 0 /\ lastInvocation = 0 /\ fnCallsSince = 0

PathIdle == pathArg = <<>> /\ pathValid = "unknown"

ScanIdle == scanEntry = 0 /\ scanIndex = 0 /\ scanState = "idle"

\* ------------------------------------------------------- the codec's runs
CodecInit ==
    /\ scenario \in 1..Len(Scenarios)
    /\ defaultValue \in Scenarios[scenario].defaults
    /\ searchParams = <<>>
    /\ pc = "build" /\ result = UndefinedNode /\ assigned = FALSE
    /\ flat = <<>> /\ reparsed = UndefinedNode

\* searchParams.append(key, value)
AppendEntry ==
    /\ pc = "build" /\ Len(searchParams) < MaxPaths
    /\ \E entry \in Scenarios[scenario].entries :
           searchParams' = Append(searchParams, entry)
    /\ UNCHANGED <<scenario, defaultValue, pc, result, assigned, flat, reparsed>>
    /\ UNCHANGED <<stringifyVars, debounceVars, pathVars, scanVars>>

\* result = parseURL(searchParams, schema, default)
Parse ==
    /\ pc = "build"
    /\ result' = parseURL(searchParams, Schema, defaultValue)
    /\ pc' = "parsed"
    /\ UNCHANGED <<scenario, defaultValue, searchParams, assigned, flat, reparsed>>
    /\ UNCHANGED <<stringifyVars, debounceVars, pathVars, scanVars>>

\* queryParams.<array>.push(v): the application appends to a primitive array
Push ==
    /\ pc = "parsed" /\ ~assigned
    /\ \E e \in 1..Len(Schema), v \in Scenarios[scenario].pushed :
           /\ Schema[e].isArray /\ isPrimitive(Schema[e].type)
           /\ result' = [result EXCEPT !.kids[e].kids = Append(@, Leaf(v))]
    /\ assigned' = TRUE
    /\ UNCHANGED <<scenario, defaultValue, searchParams, pc, flat, reparsed>>
    /\ UNCHANGED <<stringifyVars, debounceVars, pathVars, scanVars>>

\* the value tree flattened for the query string
Serialize ==
    /\ pc = "parsed"
    /\ flat' = serialize(Schema, result, <<>>)
    /\ pc' = "serialized"
    /\ UNCHANGED <<scenario, defaultValue, searchParams, result, assigned, reparsed>>
    /\ UNCHANGED <<stringifyVars, debounceVars, pathVars, scanVars>>

\* the committed query string parsed again with the same schema and default
Reparse ==
    /\ pc = "serialized"
    /\ reparsed' = parseURL(flat, Schema, defaultValue)
    /\ pc' = "reparsed"
    /\ UNCHANGED <<scenario, defaultValue, searchParams, result, assigned, flat>>
    /\ UNCHANGED <<stringifyVars, debounceVars, pathVars, scanVars>>

Next == AppendEntry \/ Parse \/ Push \/ Serialize \/ Reparse

Init == CodecInit /\ StringifyIdle /\ DebounceIdle /\ PathIdle /\ ScanIdle

Spec == Init /\ [][Next]_vars

\* ------------------------------------------- direct stringifyPrimitive calls
PrimitiveTypes == {STRING_T, NUMBER_T, DATE_T, BOOLEAN_T, EnumAB}

Values ==
    { Null, Undefined, Str(<<>>), Str(<<"a">>), Str(<<"A">>), Str(<<"z">>),
      Num(0), Num(1), Num(42), NaN, Infinity, Bool(TRUE), Bool(FALSE),
      DateOf(0), DateOf(5), InvalidDate }

StringifyInit == primitiveType \in PrimitiveTypes /\ value \in Values /\ str = Undefined

\* str = stringifyPrimitive(primitiveType, value)
Stringify ==
    /\ str = Undefined
    /\ str' = stringifyPrimitive(primitiveType, value)
    /\ UNCHANGED <<primitiveType, value, codecVars, debounceVars, pathVars, scanVars>>

\* the caller moves on to another value
NextValue ==
    /\ str # Undefined
    /\ primitiveType' \in PrimitiveTypes /\ value' \in Values
    /\ str' = Undefined
    /\ UNCHANGED <<codecVars, debounceVars, pathVars, scanVars>>

StringifyNext == Stringify \/ NextValue

InitStringify == StringifyInit /\ CodecIdle /\ DebounceIdle /\ PathIdle /\ ScanIdle

SpecStringify == InitStringify /\ [][StringifyNext]_vars

\* ------------------------------------------------ src/lib/utils.ts 5-15
\* The host's timers: setTimeout adds a pending timer that fires once the
\* clock has reached its time, clearTimeout removes it.
Delays == {Bool(FALSE), Num(1), Num(2), Num(3)}

clearTimeout(pending, id) == {t \in pending : t.id # id}

\* the returned function without its clearTimeout
debouncedNoClear(pending, id, at) == pending \cup {[id |-> id, at |-> at]}

\* lines 12-13: clearTimeout(timeout); timeout = setTimeout(fn, delay)
debounced(pending, id, at) == clearTimeout(pending, timeout) \cup {[id |-> id, at |-> at]}

DebounceInit ==
    /\ delay \in Delays /\ now = 0 /\ timeout = 0 /\ timers = {}
    /\ fnCalls = 0 /\ invocations = 0 /\ lastInvocation = 0 /\ fnCallsSince = 0

\* a call of the function debounce returned
Invoke ==
    /\ invocations < MaxInvocations
    /\ invocations' = invocations + 1
    /\ lastInvocation' = now
    /\ fnCallsSince' = 0
    /\ IF delay = Bool(FALSE)
       THEN UNCHANGED <<timers, timeout>>
       ELSE /\ timers' = debounced(timers, invocations + 1, now + delay.n)
            /\ timeout' = invocations + 1
    /\ UNCHANGED <<delay, now, fnCalls, codecVars, stringifyVars, pathVars, scanVars>>

\* a pending timer whose time has come runs fn
Fire ==
    /\ \E t \in timers :
           /\ t.at <= now
           /\ timers' = timers \ {t}
    /\ fnCalls' = fnCalls + 1
    /\ fnCallsSince' = fnCallsSince + 1
    /\ UNCHANGED <<delay, now, timeout, invocations, lastInvocation, codecVars, stringifyVars, pathVars, scanVars>>

\* the clock advances once every due timer has run
Tick ==
    /\ now < MaxTime
    /\ \A t \in timers : t.at > now
    /\ now' = now + 1
    /\ UNCHANGED <<delay, timeout, timers, fnCalls, invocations, lastInvocation,
                   fnCallsSince, codecVars, stringifyVars, pathVars, scanVars>>

DebounceNext == Invoke \/ Fire \/ Tick

InitDebounce == DebounceInit /\ CodecIdle /\ StringifyIdle /\ PathIdle /\ ScanIdle

SpecDebounce == InitDebounce /\ [][DebounceNext]_vars

\* -------------------------------------------------- direct isValidPath calls
\* every key the schema declares, at any depth
RECURSIVE SchemaKeys(_)
SchemaKeys(schema) ==
    UNION {{schema[e].key} \cup (IF schema[e].type.isStr THEN {}
                                 ELSE SchemaKeys(schema[e].type.obj)) :
               e \in 1..Len(schema)}

\* the segments paths are built from: the schema's keys, array indices, and
\* names the schema does not declare
PathSegments ==
    SchemaKeys(Schema) \cup
        { <<"0">>, <<"1", "0">>, <<"0", "x">>, <<>>, <<"z", "z">>,
          CONSTRUCTOR, PROTO }

PathInit ==
    /\ scenario \in 1..Len(Scenarios)
    /\ defaultValue = UndefinedNode /\ searchParams = <<>>
    /\ pc = "build" /\ result = UndefinedNode /\ assigned = FALSE
    /\ flat = <<>> /\ reparsed = UndefinedNode
    /\ pathArg \in PathSegments /\ pathValid = "unknown"

\* the caller writes one more segment after a '.'
ExtendPath ==
    /\ pathValid = "unknown"
    /\ Len(split(pathArg, ".")) < MaxSegments
    /\ \E segment \in PathSegments : pathArg' = pathArg \o <<".">> \o segment
    /\ UNCHANGED <<pathValid, codecVars, stringifyVars, debounceVars, scanVars>>

\* pathValid = isValidPath(path, schema)
CheckPath ==
    /\ pathValid = "unknown"
    /\ pathValid' = IF isValidPath(pathArg, Schema) THEN "true" ELSE "false"
    /\ UNCHANGED <<pathArg, codecVars, stringifyVars, debounceVars, scanVars>>

PathNext == ExtendPath \/ CheckPath

InitPath == PathInit /\ StringifyIdle /\ DebounceIdle /\ ScanIdle

SpecPath == InitPath /\ [][PathNext]_vars

\* ------------------------------------- the index scans of parseURL, by step
\* the top-level schema entries that are arrays
ArrayEntries == {e \in 1..Len(Schema) : Schema[e].isArray}

\* lines 77-78 and 94-96: parseURL reaches the array entry e and enters its
\* for (let i = 0; ; i++) loop
StartScan ==
    /\ pc = "build" /\ scanState = "idle"
    /\ \E e \in ArrayEntries : scanEntry' = e
    /\ scanIndex' = 0 /\ scanState' = "scanning" /\ pc' = "scan"
    /\ UNCHANGED <<scenario, defaultValue, searchParams, result, assigned, flat, reparsed>>
    /\ UNCHANGED <<stringifyVars, debounceVars, pathVars>>

\* lines 79-84 and 97-101: one iteration, which breaks or goes on to i + 1
ScanStep ==
    /\ scanState = "scanning"
    /\ LET newPath == Schema[scanEntry].key
           default == DefaultGet(defaultValue, newPath)
           pathMap == NewMap(searchParams)
           breaks == IF isPrimitive(Schema[scanEntry].type)
                     THEN primitiveScanBreaks(pathMap, newPath, default, scanIndex)
                     ELSE objectScanBreaks(pathMap, newPath, default, scanIndex)
       IN  IF breaks
           THEN scanState' = "done" /\ UNCHANGED scanIndex
           ELSE scanIndex' = scanIndex + 1 /\ UNCHANGED scanState
    /\ UNCHANGED <<scanEntry, codecVars, stringifyVars, debounceVars, pathVars>>

ScanNext == AppendEntry \/ StartScan \/ ScanStep

InitScan == CodecInit /\ StringifyIdle /\ DebounceIdle /\ PathIdle /\ ScanIdle

SpecScan == InitScan /\ [][ScanNext]_vars

\* the loop is scheduled until it breaks
FairSpecScan == SpecScan /\ WF_vars(ScanStep)


\* ================================================================= claims
\* ------------------------------------------------ what the claims speak of
Range(seq) == {seq[i] : i \in 1..Len(seq)}

\* the keys of the query entries
KeysOf(entries) == {entries[i][1] : i \in 1..Len(entries)}

\* the value of the last entry with this key
LastValue(entries, key) ==
    entries[CHOOSE i \in 1..Len(entries) :
                /\ entries[i][1] = key
                /\ \A j \in (i + 1)..Len(entries) : entries[j][1] # key][2]

\* the entries without those a later entry of the same key follows
RECURSIVE LastOccurrences(_)
LastOccurrences(entries) ==
    IF Len(entries) = 0 THEN <<>>
    ELSE IF Head(entries)[1] \in KeysOf(Tail(entries))
         THEN LastOccurrences(Tail(entries))
         ELSE <<Head(entries)>> \o LastOccurrences(Tail(entries))

\* the entries whose key is a structurally valid path of the schema
RECURSIVE ValidEntries(_, _)
ValidEntries(entries, schema) ==
    IF Len(entries) = 0 THEN <<>>
    ELSE IF isValidPath(Head(entries)[1], schema)
         THEN <<Head(entries)>> \o ValidEntries(Tail(entries), schema)
         ELSE ValidEntries(Tail(entries), schema)

\* the non-null leaves of a tree, each with its path
RECURSIVE NonNullLeaves(_, _)
NonNullLeaves(node, path) ==
    CASE node.t = "leaf" -> IF node.v = Null THEN {} ELSE {<<path, node.v>>}
      [] node.t = "object" ->
             UNION {NonNullLeaves(node.kids[e], JoinPath(path, node.keys[e])) :
                        e \in 1..Len(node.kids)}
      [] OTHER ->
             UNION {NonNullLeaves(node.kids[i], path \o <<".">> \o NatToString(i - 1)) :
                        i \in 1..Len(node.kids)}

\* a value of the kind, as the coercion table lists them
IsValueOf(primitive, v) ==
    CASE primitive = STRING_T -> v.k = "string" /\ v.s # <<>>
      [] primitive = NUMBER_T -> v.k = "number" /\ v # NaN
      [] primitive = DATE_T -> v.k = "date" /\ v # InvalidDate
      [] primitive = BOOLEAN_T -> v.k = "boolean"
      [] OTHER -> v.k = "string"

\* the tree has the shape the schema declares
RECURSIVE HasShape(_, _)
HasShape(schema, node) ==
    /\ node.t = "object"
    /\ Len(node.keys) = Len(schema) /\ Len(node.kids) = Len(schema)
    /\ \A e \in 1..Len(schema) :
           LET kid == node.kids[e]
               leafOK(x) == /\ x.t = "leaf"
                            /\ x.v = Null \/ IsValueOf(schema[e].type.str, x.v)
           IN  /\ node.keys[e] = schema[e].key
               /\ IF schema[e].isArray
                  THEN /\ kid.t = "array"
                       /\ \A i \in 1..Len(kid.kids) :
                              IF schema[e].type.isStr THEN leafOK(kid.kids[i])
                              ELSE HasShape(schema[e].type.obj, kid.kids[i])
                  ELSE IF schema[e].type.isStr THEN leafOK(kid)
                  ELSE HasShape(schema[e].type.obj, kid)

\* the smallest index from which on P fails, searched up to a limit past
\* every index the entries and the default can name
ScanLimit == 12
FirstIndex(P(_)) == CHOOSE n \in 0..ScanLimit : ~P(n) /\ \A i \in 0..(n - 1) : P(i)

Parsed == pc # "build"
Untouched == Parsed /\ ~assigned

\* the inputs of the enum scenario that are no member of the enum
EnumLiterals == {<<"a">>, <<"b">>}
EnumInvalidInput ==
    /\ scenario = 2
    /\ \/ \E i \in 1..Len(searchParams) : searchParams[i][2] \notin EnumLiterals
       \/ \E leaf \in NonNullLeaves(defaultValue, <<>>) : leaf[2].s \notin EnumLiterals

\* C1: serializing the parsed tree and parsing the result again with the same
\* schema gives back every non-null leaf of the first parse (inputs without
\* invalid enum values).
C1_RoundTrip ==
    (pc = "reparsed" /\ ~assigned /\ ~EnumInvalidInput)
        => NonNullLeaves(result, <<>>) \subseteq NonNullLeaves(reparsed, <<>>)

\* C2: a primitive array has exactly n entries, n the first index with neither
\* a raw value at p.n nor a default at index n.
C2_PrimitiveArrayLength ==
    (Untouched /\ scenario \in {1, 2}) =>
        LET key == Schema[2].key
            default == DefaultGet(defaultValue, key)
            present(i) ==
                \/ (key \o <<".">> \o NatToString(i)) \in KeysOf(searchParams)
                \/ DefaultAt(default, i) # UndefinedNode
        IN  Len(result.kids[2].kids) = FirstIndex(present)

\* C3: an object array ends at the first index i that no key p.i.<field>
\* addresses and that has no default entry, whatever later indices hold.
C3_ObjectArrayEnd ==
    (Untouched /\ scenario = 3) =>
        LET key == Schema[1].key
            default == DefaultGet(defaultValue, key)
            present(i) ==
                \/ \E path \in KeysOf(searchParams) :
                       startsWith(path, key \o <<".">> \o NatToString(i) \o <<".">>)
                \/ DefaultAt(default, i) # UndefinedNode
        IN  Len(result.kids[1].kids) = FirstIndex(present)

\* C4: keys that are no valid path of the schema do not influence the parse:
\* the tree is the one parsed from the valid keys alone.
C4_UnknownKeysIgnored ==
    Untouched => result = parseURL(ValidEntries(searchParams, Schema), Schema, defaultValue)

C8_Shape ==
    /\ Untouched => HasShape(Schema, result)
    /\ pc = "reparsed" => HasShape(Schema, reparsed)

\* C8 witness: a parse with a partial default that produced a null leaf, and a
\* parse that produced an object array of two elements.
C8_Witness ==
    /\ pc = "parsed" /\ ~assigned
    /\ \/ scenario = 3 /\ Len(result.kids[1].kids) = 2 /\ defaultValue # UndefinedNode
       \/ scenario = 4 /\ defaultValue # UndefinedNode /\ result.kids[3].v = Null

EnumOrNull == {Null} \cup {Str(l) : l \in EnumLiterals}

\* C9: every enum leaf of a parsed tree is a declared literal or null, a raw
\* non-member gives a null entry even where a default exists, and serializing
\* emits an enum leaf's value exactly when it is a declared literal.
C9_EnumValidity ==
    scenario = 2 =>
        LET key == Schema[2].key
            at(i) == key \o <<".">> \o NatToString(i - 1)
            enumLeaves(tree) ==
                /\ tree.kids[1].v \in EnumOrNull
                /\ \A i \in 1..Len(tree.kids[2].kids) : tree.kids[2].kids[i].v \in EnumOrNull
        IN  /\ Untouched => enumLeaves(result)
            /\ pc = "reparsed" => enumLeaves(reparsed)
            /\ Untouched =>
                   \A i \in 1..Len(result.kids[2].kids) :
                       (/\ at(i) \in KeysOf(searchParams)
                        /\ LastValue(searchParams, at(i)) \notin EnumLiterals)
                           => result.kids[2].kids[i].v = Null
            /\ pc \in {"serialized", "reparsed"} =>
                   \A i \in 1..Len(result.kids[2].kids) :
                       LET v == result.kids[2].kids[i].v
                       IN  IF v.k = "string" /\ v.s \in EnumLiterals
                           THEN <<at(i), v.s>> \in Range(flat)
                           ELSE at(i) \notin KeysOf(flat)

\* C9 witness: a raw non-member parsed to null although index 0 has a default,
\* a non-member was pushed onto the enum array, and the tree was serialized.
C9_Witness ==
    /\ scenario = 2 /\ pc = "serialized" /\ assigned
    /\ DefaultAt(DefaultGet(defaultValue, Schema[2].key), 0) # UndefinedNode
    /\ <<<<"e", "s", ".", "0">>, <<"c">>>> \in Range(searchParams)
    /\ result.kids[2].kids[1].v = Null
    /\ result.kids[2].kids[Len(result.kids[2].kids)].v = Str(<<"z">>)
    /\ result.kids[1].v = Str(<<"b">>)
    /\ <<<<"e">>, <<"b">>>> \in Range(flat)

\* C10 as stated: for kind 'number' the result is null for null and otherwise
\* the numeric string form of the value.
C10_NumberAsStated ==
    (str # Undefined /\ primitiveType = NUMBER_T /\ value.k \in {"null", "number"})
        => str = IF value = Null THEN Null ELSE Str(toString(value))

\* C10 amended: for kind 'number' the result is null for null and for NaN, and
\* otherwise the numeric string form of the value; 0 gives '0'.
C10_NumberStringify ==
    (str # Undefined /\ primitiveType = NUMBER_T /\ value.k \in {"null", "number"})
        => /\ str = IF value \in {Null, NaN} THEN Null ELSE Str(toString(value))
           /\ value = Num(0) => str = Str(<<"0">>)
           /\ value = Num(42) => str = Str(<<"4", "2">>)

\* C10 witness: the number 0 was stringified.
C10_Witness ==
    primitiveType = NUMBER_T /\ value = Num(0) /\ str = Str(<<"0">>)

\* C6: with delay false every invocation runs the wrapped function at once,
\* once per invocation.
C6_NoDelayRunsEachCall ==
    delay = Bool(FALSE) => fnCalls = invocations /\ timers = {}

\* C7: with a numeric delay an invocation replaces the pending call; fn does
\* not run before the delay has passed since the last invocation and has run
\* exactly once after it.
C7_Debounce ==
    (delay # Bool(FALSE) /\ invocations > 0) =>
        /\ Cardinality(timers) <= 1
        /\ \A t \in timers : t.id = timeout /\ t.at = lastInvocation + delay.n
        /\ fnCallsSince <= 1
        /\ now < lastInvocation + delay.n => fnCallsSince = 0 /\ timers # {}
        /\ now > lastInvocation + delay.n => fnCallsSince = 1 /\ timers = {}
        /\ fnCalls <= invocations

\* C7 witness: three invocations, each within the delay of the one before,
\* and a single execution after them.
C7_Witness ==
    /\ delay = Num(2) /\ invocations = 3 /\ lastInvocation = 2
    /\ fnCalls = 1 /\ fnCallsSince = 1 /\ now = 4

\* the walk the path grammar describes: digits at an array node, a declared
\* key at an object node, no segment left over at a primitive leaf
RECURSIVE Resolves(_, _, _, _)
Resolves(parts, i, isArray, type) ==
    IF i > Len(parts) THEN TRUE
    ELSE IF isArray
         THEN /\ parts[i] # <<>>
              /\ \A c \in 1..Len(parts[i]) :
                     parts[i][c] \in {"0", "1", "2", "3", "4", "5", "6", "7", "8", "9"}
              /\ Resolves(parts, i + 1, FALSE, type)
    ELSE IF type.isStr THEN FALSE
    ELSE \E e \in 1..Len(type.obj) :
             /\ type.obj[e].key = parts[i]
             /\ Resolves(parts, i + 1, type.obj[e].isArray, type.obj[e].type)

\* C11: isValidPath returns true exactly when every segment of the path
\* resolves against the schema: digits at an array node, a key the node
\* declares at an object node, nothing below a primitive leaf.
C11_ValidPathExactly ==
    pathValid # "unknown" =>
        (pathValid = "true" <=> Resolves(split(pathArg, "."), 1, FALSE, Obj(Schema)))


\* whether index i of the scanned array has raw data or a default: a key p.i
\* for a primitive array, a key p.i.<field> for an object array
ScanPresent(i) ==
    LET key == Schema[scanEntry].key
        arrayPath == key \o <<".">> \o NatToString(i)
    IN  \/ IF isPrimitive(Schema[scanEntry].type)
           THEN arrayPath \in KeysOf(searchParams)
           ELSE \E path \in KeysOf(searchParams) : startsWith(path, arrayPath \o <<".">>)
        \/ DefaultAt(DefaultGet(defaultValue, key), i) # UndefinedNode

\* every index scan that was entered reaches its break
ScanTerminates == (scanState = "scanning") ~> (scanState = "done")

\* C12: each index scan reaches its break condition after finitely many
\* iterations, and the index it breaks at is the first one that has neither
\* raw data nor a default.
C12_ScanBreaksAtFirstAbsent ==
    scanState = "done" => scanIndex = FirstIndex(ScanPresent)

====
